---- MODULE Spec2Model ----
(***************************************************************************)
(* Super Rifas backend (src/index.js): the normalisation pipeline          *)
(* procesarProductos / generateProductId / validateProducto and the three  *)
(* request handlers GET /api/productos, GET /api/productos/:id and         *)
(* GET /api/stats built on it.                                             *)
(*                                                                         *)
(* A JavaScript string is modelled as a sequence of one-character strings, *)
(* so that trimming, lower-casing, the two replace() calls, substring()    *)
(* and the validity regular expression are computed character by           *)
(* character.  The cells of a fetched table are strings: the handlers call *)
(* spreadsheets.values.get without a valueRenderOption, and the Sheets API *)
(* then returns every cell as formatted text; a row holds 0 to 4 of them   *)
(* (range A:D, trailing empty cells are omitted by the API).               *)
(***************************************************************************)
EXTENDS Integers, Sequences, FiniteSets, TLC

VARIABLES pc, kind, reqId, failed, rawData, productos, res, llamada, retorno

vars == <<pc, kind, reqId, failed, rawData, productos, res, llamada, retorno>>

(***************************************************************************)
(* Bounds of the model.                                                    *)
(***************************************************************************)
\* data rows (below the header row) of a fetched table
MaxRows == 2
\* requests in flight at the same time in SpecConc
MaxConc == 2

\* the requests
Reqs == 1..MaxConc

(***************************************************************************)
(* Characters and the String methods the source uses.                      *)
(***************************************************************************)
Upper ==
  <<"A", "B", "C", "D", "E", "F", "G", "H", "I", "J", "K", "L", "M",
    "N", "O", "P", "Q", "R", "S", "T", "U", "V", "W", "X", "Y", "Z">>

Lower ==
  <<"a", "b", "c", "d", "e", "f", "g", "h", "i", "j", "k", "l", "m",
    "n", "o", "p", "q", "r", "s", "t", "u", "v", "w", "x", "y", "z">>

Range(f) == {f[i] : i \in DOMAIN f}

\* [a-z]
IsLowerLetter(c) == c \in Range(Lower)

\* \d and [0-9]
IsDigit(c) == c \in {"0", "1", "2", "3", "4", "5", "6", "7", "8", "9"}

\* \s, which is also what String.prototype.trim strips
IsSpace(c) == c \in {" ", "\t", "\n"}

\* one character of String.prototype.toLowerCase
toLowerChar(c) ==
  IF c \in Range(Upper)
    THEN Lower[CHOOSE i \in DOMAIN Upper : Upper[i] = c]
    ELSE IF c = "Ñ" THEN "ñ" ELSE c

toLowerCase(s) == [i \in 1..Len(s) |-> toLowerChar(s[i])]

RECURSIVE trimStart(_)
trimStart(s) ==
  IF s # <<>> /\ IsSpace(Head(s)) THEN trimStart(Tail(s)) ELSE s

RECURSIVE trimEnd(_)
trimEnd(s) ==
  IF s # <<>> /\ IsSpace(s[Len(s)])
    THEN trimEnd(SubSeq(s, 1, Len(s) - 1))
    ELSE s

trim(s) == trimEnd(trimStart(s))

\* s.substring(0, n)
substring(s, n) == SubSeq(s, 1, IF Len(s) < n THEN Len(s) ELSE n)

\* s.replace(/[^a-z0-9\s]/g, '')
RemoveOthers(s) ==
  SelectSeq(s, LAMBDA c : IsLowerLetter(c) \/ IsDigit(c) \/ IsSpace(c))

\* s.replace(/\s+/g, '-'): every maximal run of whitespace becomes one hyphen
RECURSIVE HyphenateSpaces(_)
HyphenateSpaces(s) ==
  IF s = <<>> THEN <<>>
  ELSE IF IsSpace(Head(s))
    THEN <<"-">> \o HyphenateSpaces(trimStart(Tail(s)))
    ELSE <<Head(s)>> \o HyphenateSpaces(Tail(s))

\* the cut of generateProductId's substring(0, 50)
IdMaxLen == 50

\* generateProductId without the substring call
generateProductIdSinCorte(nombre) ==
  HyphenateSpaces(RemoveOthers(toLowerCase(nombre)))

generateProductId(nombre) ==
  substring(HyphenateSpaces(RemoveOthers(toLowerCase(nombre))), IdMaxLen)

(***************************************************************************)
(* The validity pattern                                                    *)
(*   /del\s+(\d{2}\/\d{2}\/\d{4})\s+al\s+(\d{2}\/\d{2}\/\d{4})/i           *)
(* Each \s+ is followed by a character that is no whitespace (a digit or   *)
(* the letter a), so the greedy \s+ of a successful match always consumes  *)
(* the whole run of whitespace: SkipSpaces.  String.prototype.match        *)
(* returns the leftmost match.                                             *)
(***************************************************************************)
\* LiteralAt without the i flag
LiteralAtExacto(s, i, lit) ==
  /\ i + Len(lit) - 1 <= Len(s)
  /\ \A k \in 1..Len(lit) : s[i + k - 1] = lit[k]

\* the literal `lit` (lower case) at position i of s, ignoring case
LiteralAt(s, i, lit) ==
  /\ i + Len(lit) - 1 <= Len(s)
  /\ \A k \in 1..Len(lit) : toLowerChar(s[i + k - 1]) = lit[k]

\* \d{2}\/\d{2}\/\d{4} at position i of s
DateAt(s, i) ==
  /\ i + 9 <= Len(s)
  /\ \A k \in {0, 1, 3, 4, 6, 7, 8, 9} : IsDigit(s[i + k])
  /\ s[i + 2] = "/"
  /\ s[i + 5] = "/"

\* the first position at or after i that holds no whitespace
RECURSIVE SkipSpaces(_, _)
SkipSpaces(s, i) ==
  IF i <= Len(s) /\ IsSpace(s[i]) THEN SkipSpaces(s, i + 1) ELSE i

\* where the first group, the literal "al" and the second group begin in a
\* match that starts at i
Group1At(s, i) == SkipSpaces(s, i + 3)

AlAt(s, i) == SkipSpaces(s, Group1At(s, i) + 10)

Group2At(s, i) == SkipSpaces(s, AlAt(s, i) + 2)

MatchAt(s, i) ==
  /\ LiteralAt(s, i, <<"d", "e", "l">>)
  /\ Group1At(s, i) > i + 3
  /\ DateAt(s, Group1At(s, i))
  /\ AlAt(s, i) > Group1At(s, i) + 10
  /\ LiteralAt(s, AlAt(s, i), <<"a", "l">>)
  /\ Group2At(s, i) > AlAt(s, i) + 2
  /\ DateAt(s, Group2At(s, i))

\* vigenciaStr.match(...): null, or the two captured groups
NoMatch == [found |-> FALSE, g1 |-> <<>>, g2 |-> <<>>]

\* the leftmost position a match starts at; 0 when there is none
RECURSIVE FirstMatch(_, _)
FirstMatch(s, i) ==
  IF i > Len(s) THEN 0
  ELSE IF MatchAt(s, i) THEN i ELSE FirstMatch(s, i + 1)

GroupsOf(s, i) ==
  IF i = 0 THEN NoMatch
  ELSE [found |-> TRUE,
        g1 |-> SubSeq(s, Group1At(s, i), Group1At(s, i) + 9),
        g2 |-> SubSeq(s, Group2At(s, i), Group2At(s, i) + 9)]

fechaMatch(s) == GroupsOf(s, FirstMatch(s, 1))

(***************************************************************************)
(* procesarProductos                                                       *)
(***************************************************************************)
\* response.data.values: undefined for a sheet without data, else the rows
Undefined == [defined |-> FALSE, values |-> <<>>]

Values(t) == [defined |-> TRUE, values |-> t]

\* const [nombreProducto, vigencia, compraMinima, imagen] = row
Cell(row, k) ==
  IF k <= Len(row) THEN [defined |-> TRUE, text |-> row[k]]
                   ELSE [defined |-> FALSE, text |-> <<>>]

\* a cell in a condition: undefined and '' are falsy
Truthy(cell) == cell.defined /\ cell.text # <<>>

\* the null a skipped row maps to
Null == [null |-> TRUE]

\* the callback of rows.map; ahora is the reading of new Date()
MapRow(row, ahora) ==
  LET nombreProducto == Cell(row, 1)
      vigencia == Cell(row, 2)
      compraMinima == Cell(row, 3)
      imagen == Cell(row, 4)
      m == IF Truthy(vigencia) THEN fechaMatch(vigencia.text) ELSE NoMatch
  IN  IF ~Truthy(nombreProducto) \/ trim(nombreProducto.text) = <<>>
        THEN Null
        ELSE [nombre |-> trim(nombreProducto.text),
              vigenciaCompleta |->
                IF Truthy(vigencia) THEN vigencia.text ELSE <<>>,
              fechaInicio |-> IF m.found THEN m.g1 ELSE <<>>,
              fechaFin |-> IF m.found THEN m.g2 ELSE <<>>,
              compraMinima |->
                IF Truthy(compraMinima) THEN compraMinima.text ELSE <<>>,
              imagen |-> IF Truthy(imagen) THEN trim(imagen.text) ELSE <<>>,
              id |-> generateProductId(nombreProducto.text),
              fechaActualizacion |-> ahora]

\* procesarProductos without the slice(1): the header row is mapped too
procesarProductosConCabecera(raw, ahora) ==
  IF ~raw.defined \/ Len(raw.values) <= 1
    THEN <<>>
    ELSE SelectSeq([i \in 1..Len(raw.values) |-> MapRow(raw.values[i], ahora)],
                   LAMBDA producto : producto # Null)

\* the products of ps whose id no earlier product of ps has
SinRepetidos(ps) ==
  SelectSeq([k \in 1..Len(ps) |->
               IF \E j \in 1..k - 1 : ps[j].id = ps[k].id THEN Null ELSE ps[k]],
            LAMBDA producto : producto # Null)

\* procesarProductos made to drop a product whose id was already produced
procesarProductosSinRepetidos(raw, ahora) ==
  IF ~raw.defined \/ Len(raw.values) <= 1
    THEN <<>>
    ELSE SinRepetidos(
           SelectSeq([i \in 1..Len(raw.values) - 1 |->
                        MapRow(raw.values[i + 1], ahora)],
                     LAMBDA producto : producto # Null))

procesarProductos(raw, ahora) ==
  IF ~raw.defined \/ Len(raw.values) <= 1
    THEN <<>>
    ELSE LET rows == Tail(raw.values)
             mapped == [i \in 1..Len(rows) |-> MapRow(rows[i], ahora)]
         IN  SelectSeq(mapped, LAMBDA producto : producto # Null)

(***************************************************************************)
(* validateProducto                                                        *)
(***************************************************************************)
\* validateProducto with the three checks chained by else
validateProductoCorto(producto) ==
  LET errors ==
        IF producto.nombre = <<>> THEN <<"Nombre requerido">>
        ELSE IF producto.imagen = <<>> THEN <<"Imagen requerida">>
        ELSE IF producto.compraMinima = <<>>
          THEN <<"Compra mínima requerida">>
          ELSE <<>>
  IN  [isValid |-> Len(errors) = 0, errors |-> errors]

validateProducto(producto) ==
  LET errors ==
        (IF producto.nombre = <<>> THEN <<"Nombre requerido">> ELSE <<>>)
        \o (IF producto.imagen = <<>> THEN <<"Imagen requerida">> ELSE <<>>)
        \o (IF producto.compraMinima = <<>>
              THEN <<"Compra mínima requerida">> ELSE <<>>)
  IN  [isValid |-> Len(errors) = 0, errors |-> errors]

(***************************************************************************)
(* The three handlers.  A request r awaits getGoogleSheetsClient           *)
(* (pc = "client"), then awaits spreadsheets.values.get (pc = "fetch");    *)
(* when that promise settles the rest of the handler runs to its response  *)
(* without another await, so it is one step.  res[r] is the sequence of    *)
(* responses sent for r; rawData[r] and productos[r] are the handler's     *)
(* locals of the same name.  `ahora` is the reading of the clock the       *)
(* handler's new Date() calls take; one reading stands for the readings of *)
(* one synchronous pass.                                                   *)
(***************************************************************************)
SHEET_ID == "1xJ65-Z8cpoWzgBW3wcXTinKTAvh-L4zUmesouoAaVRA"

SHEET_NAME == "Productos participantes"

Send(r, status, body) ==
  res' = [res EXCEPT ![r] = Append(@, [status |-> status, body |-> body])]

\* a rejected promise of the fetch, or what response.data.values holds
Rejected == [ok |-> FALSE, data |-> Undefined]

Outcomes(tables) ==
  {Rejected} \cup {[ok |-> TRUE, data |-> d] :
                     d \in {Undefined} \cup {Values(t) : t \in tables}}

\* the bodies of the three catch blocks (the list handler adds error.message
\* when NODE_ENV is development; undefined, hence absent, otherwise)
Error500(k) ==
  IF k = "list"
    THEN [success |-> FALSE, error |-> "Error interno del servidor",
          productos |-> <<>>, total |-> 0]
    ELSE [success |-> FALSE, error |-> "Error interno del servidor"]

\* the handler is entered: it awaits getGoogleSheetsClient()
Request(r, k, id) ==
  /\ pc[r] = "idle"
  /\ pc' = [pc EXCEPT ![r] = "client"]
  /\ kind' = [kind EXCEPT ![r] = k]
  /\ reqId' = [reqId EXCEPT ![r] = id]
  /\ UNCHANGED <<failed, rawData, productos, res, llamada, retorno>>

\* getGoogleSheetsClient resolved: the handler awaits spreadsheets.values.get
ClientResolved(r) ==
  /\ pc[r] = "client"
  /\ pc' = [pc EXCEPT ![r] = "fetch"]
  /\ UNCHANGED <<kind, reqId, failed, rawData, productos, res, llamada, retorno>>

\* getGoogleSheetsClient threw: the handler's catch block answers
ClientRejected(r) ==
  /\ pc[r] = "client"
  /\ pc' = [pc EXCEPT ![r] = "done"]
  /\ failed' = [failed EXCEPT ![r] = TRUE]
  /\ Send(r, 500, Error500(kind[r]))
  /\ UNCHANGED <<kind, reqId, rawData, productos, llamada, retorno>>

\* productos.filter(p => !validateProducto(p).isValid)
Invalidos(ps) == SelectSeq(ps, LAMBDA p : ~validateProducto(p).isValid)

Validos(ps) == SelectSeq(ps, LAMBDA p : validateProducto(p).isValid)

\* ListaBody that lists the valid products only
ListaBodyFiltrada(ps, ahora) ==
  [success |-> TRUE,
   productos |-> SelectSeq(ps, LAMBDA p : validateProducto(p).isValid),
   total |-> Len(SelectSeq(ps, LAMBDA p : validateProducto(p).isValid)),
   metadata |-> [timestamp |-> ahora,
                 sheetId |-> SHEET_ID,
                 sheetName |-> SHEET_NAME,
                 productosValidos |->
                   Len(SelectSeq(ps, LAMBDA p : validateProducto(p).isValid)),
                 productosInvalidos |->
                   Len(SelectSeq(ps, LAMBDA p : ~validateProducto(p).isValid))]]

ListaBody(ps, ahora) ==
  [success |-> TRUE,
   productos |-> ps,
   total |-> Len(ps),
   metadata |-> [timestamp |-> ahora,
                 sheetId |-> SHEET_ID,
                 sheetName |-> SHEET_NAME,
                 productosValidos |-> Len(Validos(ps)),
                 productosInvalidos |-> Len(Invalidos(ps))]]

SinDatos ==
  [success |-> FALSE, error |-> "No se encontraron datos en el sheet",
   productos |-> <<>>, total |-> 0]

\* GET /api/productos, from the settling of the fetch to the response
GetProductos(r, out, ahora) ==
  /\ pc[r] = "fetch"
  /\ kind[r] = "list"
  /\ pc' = [pc EXCEPT ![r] = "done"]
  /\ IF ~out.ok
       THEN /\ failed' = [failed EXCEPT ![r] = TRUE]
            /\ Send(r, 500, Error500("list"))
            /\ UNCHANGED <<rawData, productos>>
       ELSE /\ rawData' = [rawData EXCEPT ![r] = out.data]
            /\ UNCHANGED failed
            /\ IF ~out.data.defined
                 THEN /\ Send(r, 404, SinDatos)
                      /\ UNCHANGED productos
                 ELSE LET ps == procesarProductos(out.data, ahora)
                      IN  /\ productos' = [productos EXCEPT ![r] = ps]
                          /\ Send(r, 200, ListaBody(ps, ahora))
  /\ UNCHANGED <<kind, reqId, llamada, retorno>>

\* find that returns the last product with the id
findUltimo(ps, id) ==
  LET hits == {i \in 1..Len(ps) : ps[i].id = id}
  IN  IF hits = {} THEN [found |-> FALSE, producto |-> Null]
      ELSE [found |-> TRUE,
            producto |-> ps[CHOOSE i \in hits : \A j \in hits : i >= j]]

\* productos.find(p => p.id === id): undefined, or the first such product
find(ps, id) ==
  LET hits == {i \in 1..Len(ps) : ps[i].id = id}
  IN  IF hits = {} THEN [found |-> FALSE, producto |-> Null]
      ELSE [found |-> TRUE,
            producto |-> ps[CHOOSE i \in hits : \A j \in hits : i <= j]]

NoEncontrado == [success |-> FALSE, error |-> "Producto no encontrado"]

\* GET /api/productos/:id, from the settling of the fetch to the response
GetProducto(r, out, ahora) ==
  /\ pc[r] = "fetch"
  /\ kind[r] = "lookup"
  /\ pc' = [pc EXCEPT ![r] = "done"]
  /\ IF ~out.ok
       THEN /\ failed' = [failed EXCEPT ![r] = TRUE]
            /\ Send(r, 500, Error500("lookup"))
            /\ UNCHANGED <<rawData, productos>>
       ELSE LET ps == procesarProductos(out.data, ahora)
                producto == find(ps, reqId[r])
            IN  /\ rawData' = [rawData EXCEPT ![r] = out.data]
                /\ productos' = [productos EXCEPT ![r] = ps]
                /\ UNCHANGED failed
                /\ IF ~producto.found
                     THEN Send(r, 404, NoEncontrado)
                     ELSE Send(r, 200, [success |-> TRUE,
                                        producto |-> producto.producto])
  /\ UNCHANGED <<kind, reqId, llamada, retorno>>

\* StatsBody whose conVigencia counts the products with parsed dates
StatsBodyFechas(ps, ahora) ==
  [success |-> TRUE,
   stats |-> [totalProductos |-> Len(ps),
              productosActivos |-> Len(ps),
              ultimaActualizacion |-> ahora,
              categorias |->
                [conImagen |-> Len(SelectSeq(ps, LAMBDA p : p.imagen # <<>>)),
                 sinImagen |-> Len(SelectSeq(ps, LAMBDA p : p.imagen = <<>>)),
                 conVigencia |->
                   Len(SelectSeq(ps, LAMBDA p : p.fechaInicio # <<>>))]]]

StatsBody(ps, ahora) ==
  [success |-> TRUE,
   stats |-> [totalProductos |-> Len(ps),
              productosActivos |-> Len(ps),
              ultimaActualizacion |-> ahora,
              categorias |->
                [conImagen |-> Len(SelectSeq(ps, LAMBDA p : p.imagen # <<>>)),
                 sinImagen |-> Len(SelectSeq(ps, LAMBDA p : p.imagen = <<>>)),
                 conVigencia |->
                   Len(SelectSeq(ps, LAMBDA p : p.vigenciaCompleta # <<>>))]]]

\* a table kept in a variable of the module: the one another request left
\* there, if any
Compartida(r, data) ==
  IF \E q \in Reqs \ {r} : rawData[q].defined
    THEN rawData[CHOOSE q \in Reqs \ {r} : rawData[q].defined]
    ELSE data

\* GetStats that computes its statistics from the table of the module
GetStatsCompartido(r, out, ahora) ==
  /\ pc[r] = "fetch"
  /\ kind[r] = "stats"
  /\ pc' = [pc EXCEPT ![r] = "done"]
  /\ IF ~out.ok
       THEN /\ failed' = [failed EXCEPT ![r] = TRUE]
            /\ Send(r, 500, Error500("stats"))
            /\ UNCHANGED <<rawData, productos>>
       ELSE /\ rawData' = [rawData EXCEPT ![r] = out.data]
            /\ productos' =
                 [productos EXCEPT
                    ![r] = procesarProductos(Compartida(r, out.data), ahora)]
            /\ UNCHANGED failed
            /\ Send(r, 200,
                    StatsBody(procesarProductos(Compartida(r, out.data), ahora),
                              ahora))
  /\ UNCHANGED <<kind, reqId, llamada, retorno>>

\* GET /api/stats, from the settling of the fetch to the response
GetStats(r, out, ahora) ==
  /\ pc[r] = "fetch"
  /\ kind[r] = "stats"
  /\ pc' = [pc EXCEPT ![r] = "done"]
  /\ IF ~out.ok
       THEN /\ failed' = [failed EXCEPT ![r] = TRUE]
            /\ Send(r, 500, Error500("stats"))
            /\ UNCHANGED <<rawData, productos>>
       ELSE LET ps == procesarProductos(out.data, ahora)
            IN  /\ rawData' = [rawData EXCEPT ![r] = out.data]
                /\ productos' = [productos EXCEPT ![r] = ps]
                /\ UNCHANGED failed
                /\ Send(r, 200, StatsBody(ps, ahora))
  /\ UNCHANGED <<kind, reqId, llamada, retorno>>

(***************************************************************************)
(* The inputs: cell texts, rows and tables the fetch may return.           *)
(***************************************************************************)
RECURSIVE Repeat(_, _)
Repeat(s, n) == IF n = 0 THEN <<>> ELSE s \o Repeat(s, n - 1)

Sp == <<" ">>

Del == <<"d", "e", "l">>

Al == <<"a", "l">>

Fecha1 == <<"0", "1", "/", "0", "1", "/", "2", "0", "2", "4">>

Fecha2 == <<"3", "1", "/", "0", "1", "/", "2", "0", "2", "4">>

Fecha3 == <<"0", "2", "/", "0", "2", "/", "2", "0", "2", "5">>

Fecha4 == <<"0", "3", "/", "0", "3", "/", "2", "0", "2", "5">>

\* "Widget A" and "Gadget B"
WidgetA == <<"W", "i", "d", "g", "e", "t", " ", "A">>

GadgetB == <<"G", "a", "d", "g", "e", "t", " ", "B">>

\* "widget  a": another name with the slug of "Widget A"
WidgetMinus == <<"w", "i", "d", "g", "e", "t", " ", " ", "a">>

\* "PIÑA-9!"
Pina == <<"P", "I", "Ñ", "A", "-", "9", "!">>

\* sixty characters, "Ab Ab Ab ... "
Largo == Repeat(<<"A", "b", " ">>, 20)

\* "del 01/01/2024 al 31/01/2024"
VigA == Del \o Sp \o Fecha1 \o Sp \o Al \o Sp \o Fecha2

\* "Vig: DEL  01/01/2024<tab>Al 31/01/2024."
VigUpper ==
  <<"V", "i", "g", ":", " ", "D", "E", "L", " ", " ">> \o Fecha1
    \o <<"\t", "A", "l", " ">> \o Fecha2 \o <<".">>

\* "texto libre" and "no vigencia"
VigLibre == <<"t", "e", "x", "t", "o", " ", "l", "i", "b", "r", "e">>

NoVig == <<"n", "o", " ", "v", "i", "g", "e", "n", "c", "i", "a">>

\* "del 1/01/2024 al 31/01/2024": a one-digit day
VigShort ==
  Del \o Sp \o SubSeq(Fecha1, 2, 10) \o Sp \o Al \o Sp \o Fecha2

\* "del 01/01/2024 al31/01/2024": no whitespace after "al"
VigGlued == Del \o Sp \o Fecha1 \o Sp \o Al \o Fecha2

\* "del 01/01/2024 al del 02/02/2025 al 03/03/2025": the match starts late
VigTwo ==
  Del \o Sp \o Fecha1 \o Sp \o Al \o Sp
    \o Del \o Sp \o Fecha3 \o Sp \o Al \o Sp \o Fecha4

\* "del 02/02/2025 al 03/03/2025 y del 01/01/2024 al 31/01/2024": two matches
VigDoble ==
  Del \o Sp \o Fecha3 \o Sp \o Al \o Sp \o Fecha4 \o <<" ", "y", " ">> \o VigA

\* "$100" and "img1.png"
Cien == <<"$", "1", "0", "0">>

Img1 == <<"i", "m", "g", "1", ".", "p", "n", "g">>

\* the header row
Header ==
  << <<"N", "a", "m", "e">>, <<"V", "a", "l", "i", "d", "i", "t", "y">>,
     <<"M", "i", "n">>, <<"I", "m", "g">> >>

FilaWidget == <<WidgetA, VigA, Cien, Img1>>

FilaSinNombre == << <<>>, NoVig, <<>>, <<>> >>

FilaGadget == <<GadgetB, VigLibre, <<>>, <<>> >>

FilaEspacios == <<Sp \o WidgetA, VigUpper, Sp, Sp \o Img1 \o Sp>>

FilaMinus == <<WidgetMinus>>

FilaVacia == <<>>

FilaEnBlanco == <<Sp \o <<"\t">>, VigA, Cien, Img1>>

FilaPina == <<Pina, VigShort, Cien, Sp \o Sp>>

FilaLarga == <<Largo, VigGlued, <<>>, Img1>>

FilaDos == <<GadgetB \o Sp, VigTwo, <<"2">> >>

FilaSinVigencia == <<GadgetB, <<>>, Cien, Img1>>

FilaDoble == <<WidgetA \o <<"2">>, VigDoble, Cien>>

Filas ==
  {FilaWidget, FilaSinNombre, FilaGadget, FilaEspacios, FilaMinus, FilaVacia,
   FilaEnBlanco, FilaPina, FilaLarga, FilaDos, FilaSinVigencia, FilaDoble}

\* the sequences of at most n elements of S
SeqUpTo(S, n) == UNION {[1..k -> S] : k \in 0..n}

\* a table: no row at all; the header row and at most MaxRows rows below it;
\* or a sheet without header, whose first row is a product row
Tables ==
  {<<>>}
    \cup {<<Header>> \o t : t \in SeqUpTo(Filas, MaxRows)}
    \cup {<<FilaWidget>> \o t : t \in SeqUpTo(Filas, 1)}

\* the tables of the concurrent specification
ConcTables ==
  {<<Header, FilaWidget>>, <<Header, FilaEspacios, FilaGadget, FilaMinus>>}

\* req.params.id: "widget-a", "-widget-a", "gadget-b", "zzz"
LookupIds ==
  {<<"w", "i", "d", "g", "e", "t", "-", "a">>,
   <<"-", "w", "i", "d", "g", "e", "t", "-", "a">>,
   <<"g", "a", "d", "g", "e", "t", "-", "b">>,
   <<"z", "z", "z">>}

ConcIds == {<<"w", "i", "d", "g", "e", "t", "-", "a">>, <<"z", "z", "z">>}

\* readings of the clock
Relojes == {"t1", "t2"}

Kinds == {"list", "lookup", "stats"}

(***************************************************************************)
(* Direct calls of the two pure helpers: llamada is the call, retorno what *)
(* it returned.                                                            *)
(***************************************************************************)
\* names generateProductId is called with
Nombres ==
  {<<>>, Sp, Sp \o <<"\t">>, WidgetA, Sp \o WidgetA, WidgetA \o Sp,
   WidgetMinus, GadgetB, Pina, Largo, Largo \o Pina, VigA, VigUpper, Img1,
   Cien, <<"A", "-", "1">>, <<"-", "-">>, <<"\n", "x", "\t", "\t", "Y", " ">>,
   SubSeq(Largo, 1, 50), SubSeq(Largo, 1, 49) \o Pina, Repeat(Sp, 55)}

\* products validateProducto is called with
ProductosDePrueba ==
  {[nombre |-> n, vigenciaCompleta |-> v, fechaInicio |-> <<>>,
    fechaFin |-> <<>>, compraMinima |-> c, imagen |-> i,
    id |-> generateProductId(n), fechaActualizacion |-> "t1"] :
     n \in {<<>>, WidgetA, GadgetB, Pina},
     v \in {<<>>, VigLibre},
     c \in {<<>>, Cien, Sp, <<"0">>},
     i \in {<<>>, Img1, Cien, <<"x">>}}

CallGenerateProductId(nombre) ==
  /\ llamada' = [fn |-> "generateProductId", nombre |-> nombre]
  /\ retorno' = [id |-> generateProductId(nombre)]
  /\ UNCHANGED <<pc, kind, reqId, failed, rawData, productos, res>>

CallValidateProducto(producto) ==
  /\ llamada' = [fn |-> "validateProducto", producto |-> producto]
  /\ retorno' = validateProducto(producto)
  /\ UNCHANGED <<pc, kind, reqId, failed, rawData, productos, res>>

(***************************************************************************)
(* Specifications.  Spec: one request, every table of Tables.  SpecConc:   *)
(* MaxConc requests interleaved, each with its own fetch.  SpecFn: calls   *)
(* of generateProductId and validateProducto.                              *)
(***************************************************************************)
Init ==
  /\ pc = [r \in Reqs |-> "idle"]
  /\ kind = [r \in Reqs |-> "none"]
  /\ reqId = [r \in Reqs |-> <<>>]
  /\ failed = [r \in Reqs |-> FALSE]
  /\ rawData = [r \in Reqs |-> Undefined]
  /\ productos = [r \in Reqs |-> <<>>]
  /\ res = [r \in Reqs |-> <<>>]
  /\ llamada = [fn |-> "none"]
  /\ retorno = [none |-> TRUE]

Next ==
  \E r \in {1} :
    \/ \E k \in Kinds \ {"lookup"} : Request(r, k, <<>>)
    \/ \E id \in LookupIds : Request(r, "lookup", id)
    \/ ClientResolved(r)
    \/ ClientRejected(r)
    \/ \E out \in Outcomes(Tables), ahora \in Relojes :
         GetProductos(r, out, ahora)
    \/ \E out \in Outcomes(Tables), ahora \in Relojes :
         GetProducto(r, out, ahora)
    \/ \E out \in Outcomes(Tables), ahora \in Relojes :
         GetStats(r, out, ahora)

Spec == Init /\ [][Next]_vars

NextConc ==
  \E r \in Reqs :
    \/ \E k \in Kinds \ {"lookup"} : Request(r, k, <<>>)
    \/ \E id \in ConcIds : Request(r, "lookup", id)
    \/ ClientResolved(r)
    \/ ClientRejected(r)
    \/ \E out \in Outcomes(ConcTables), ahora \in Relojes :
         GetProductos(r, out, ahora)
    \/ \E out \in Outcomes(ConcTables), ahora \in Relojes :
         GetProducto(r, out, ahora)
    \/ \E out \in Outcomes(ConcTables), ahora \in Relojes :
         GetStats(r, out, ahora)

SpecConc == Init /\ [][NextConc]_vars

NextFn ==
  \/ \E nombre \in Nombres : CallGenerateProductId(nombre)
  \/ \E producto \in ProductosDePrueba : CallValidateProducto(producto)

SpecFn == Init /\ [][NextFn]_vars

(***************************************************************************)
(* Properties.  The helpers below state what the specification says in its *)
(* own terms (positions and character classes), not through the operators  *)
(* that model the code.                                                    *)
(***************************************************************************)
\* r has answered without failure and has called procesarProductos on
\* rawData[r], leaving the result in productos[r]
Procesado(r) ==
  /\ pc[r] = "done"
  /\ ~failed[r]
  /\ kind[r] = "list" => rawData[r].defined

Blanco(c) == c \in {" ", "\t", "\n"}

\* the positions a..b of s hold whitespace only
SoloBlancos(s, a, b) == \A k \in a..b : Blanco(s[k])

\* t is s without its leading and trailing whitespace
EsRecorte(t, s) ==
  \E a \in 1..Len(s) + 1 :
    /\ SoloBlancos(s, 1, a - 1)
    /\ a <= Len(s) => ~Blanco(s[a])
    /\ \E b \in a - 1..Len(s) :
         /\ SoloBlancos(s, b + 1, Len(s))
         /\ b >= a => ~Blanco(s[b])
         /\ t = SubSeq(s, a, b)

\* the name cell of the row is present and not blank
ConNombre(row) ==
  /\ Len(row) >= 1
  /\ \E k \in 1..Len(row[1]) : ~Blanco(row[1][k])

\* the rows below the header that have a name
Supervivientes(raw) ==
  IF raw.defined
    THEN {i \in 2..Len(raw.values) : ConNombre(raw.values[i])}
    ELSE {}

\* the position in the result of the product of surviving row i
Puesto(raw, i) == Cardinality({j \in Supervivientes(raw) : j <= i})

\* the text of cell k of a row, '' when the cell is missing
Texto(row, k) == IF k <= Len(row) THEN row[k] ELSE <<>>

\* C1: procesarProductos returns exactly one product per row below the
\* header whose name cell is present and not blank, in table order, and the
\* product's nombre is that cell's text trimmed; an absent table and a table
\* of at most one row give the empty sequence.
C1_UnProductoPorFila ==
  \A r \in Reqs :
    Procesado(r) =>
      /\ Len(productos[r]) = Cardinality(Supervivientes(rawData[r]))
      /\ \A i \in Supervivientes(rawData[r]) :
           EsRecorte(productos[r][Puesto(rawData[r], i)].nombre,
                     rawData[r].values[i][1])
      /\ (~rawData[r].defined \/ Len(rawData[r].values) <= 1)
           => productos[r] = <<>>

\* a blank-name row is dropped and the row after it survives, trimmed
C1_Witness ==
  \E r \in Reqs :
    /\ Procesado(r)
    /\ rawData[r] = Values(<<Header, FilaEnBlanco, FilaEspacios>>)
    /\ Len(productos[r]) = 1
    /\ productos[r][1].nombre = WidgetA

\* C2 as stated: within one result no two products at different positions
\* have the same id.
C2_IdsUnicos ==
  \A r \in Reqs :
    Procesado(r) =>
      \A i, j \in 1..Len(productos[r]) :
        i # j => productos[r][i].id # productos[r][j].id

\* C2 amended: collisions are kept.  For every id, the result holds as many
\* products with that id as the table has named rows whose name cell
\* generateProductId maps to it; so two products share their id exactly when
\* their rows' name cells have the same slug.
C2_ColisionesSeConservan ==
  \A r \in Reqs :
    Procesado(r) =>
      /\ \A i \in Supervivientes(rawData[r]) :
           Puesto(rawData[r], i) <= Len(productos[r])
      /\ \A i \in Supervivientes(rawData[r]) :
           Cardinality({k \in 1..Len(productos[r]) :
                          productos[r][k].id =
                            productos[r][Puesto(rawData[r], i)].id})
             = Cardinality({j \in Supervivientes(rawData[r]) :
                              generateProductId(rawData[r].values[j][1])
                                = generateProductId(rawData[r].values[i][1])})

\* two products with different names and the same id
C2_Witness ==
  \E r \in Reqs :
    /\ Procesado(r)
    /\ Len(productos[r]) = 2
    /\ productos[r][1].id = productos[r][2].id
    /\ productos[r][1].nombre # productos[r][2].nombre

\* C3 as stated: every product's id is generateProductId of its nombre, so
\* products with equal nombre have equal id and a lookup by
\* generateProductId(nombre) finds a product with that nombre.
C3_IdDelNombre ==
  \A r \in Reqs :
    Procesado(r) =>
      \A k \in 1..Len(productos[r]) :
        /\ productos[r][k].id = generateProductId(productos[r][k].nombre)
        /\ \A j \in 1..Len(productos[r]) :
             productos[r][j].nombre = productos[r][k].nombre
               => productos[r][j].id = productos[r][k].id
        /\ find(productos[r], generateProductId(productos[r][k].nombre)).found
        /\ find(productos[r], generateProductId(productos[r][k].nombre))
             .producto.nombre = productos[r][k].nombre

\* the word w, a sequence of the two cases of each letter, stands at
\* position a of s
Palabra(s, a, w) ==
  /\ a + Len(w) - 1 <= Len(s)
  /\ \A k \in 1..Len(w) : s[a + k - 1] \in w[k]

\* t has the form DD/MM/YYYY
EsFecha(t) ==
  /\ Len(t) = 10
  /\ \A k \in 1..10 :
       IF k \in {3, 6} THEN t[k] = "/"
       ELSE t[k] \in {"0", "1", "2", "3", "4", "5", "6", "7", "8", "9"}

\* the places in s where one or more whitespace characters that begin at
\* position a end and a date begins
FechasTras(s, a) ==
  {g \in a + 1..Len(s) :
     SoloBlancos(s, a, g - 1) /\ EsFecha(SubSeq(s, g, g + 9))}

\* the places where whitespace that begins at a ends and "al" begins
AlTras(s, a) ==
  {q \in a + 1..Len(s) :
     SoloBlancos(s, a, q - 1) /\ Palabra(s, q, <<{"a", "A"}, {"l", "L"}>>)}

\* every <<a, g1, g2>> such that 'del <date> al <date>' stands at a with
\* its dates at g1 and g2
Coincidencias(s) ==
  UNION {UNION {UNION {{<<a, g1, g2>> : g2 \in FechasTras(s, q + 2)} :
                         q \in AlTras(s, g1 + 10)} :
                  g1 \in FechasTras(s, a + 3)} :
           a \in {b \in 1..Len(s) : Palabra(s, b, <<{"d", "D"}, {"e", "E"}, {"l", "L"}>>)}}

\* the first match
Primera(M) == CHOOSE m \in M : \A n \in M : m[1] <= n[1]

\* what C4 asks of product p made from the validity text v
C4_Fechas(p, v) ==
  /\ p.vigenciaCompleta = v
  /\ (p.fechaInicio = <<>>) <=> (p.fechaFin = <<>>)
  /\ IF Coincidencias(v) = {}
       THEN p.fechaInicio = <<>> /\ p.fechaFin = <<>>
       ELSE /\ p.fechaInicio =
                 SubSeq(v, Primera(Coincidencias(v))[2],
                        Primera(Coincidencias(v))[2] + 9)
            /\ p.fechaFin =
                 SubSeq(v, Primera(Coincidencias(v))[3],
                        Primera(Coincidencias(v))[3] + 9)

\* C4: when the validity cell contains 'del <DD/MM/YYYY> al <DD/MM/YYYY>' in
\* any case, fechaInicio and fechaFin are the two dates of the match;
\* otherwise both are empty; they are both empty or both populated, and
\* vigenciaCompleta is the cell's text verbatim ('' for a missing cell).
C4_FechasDeVigencia ==
  \A r \in Reqs :
    Procesado(r) =>
      /\ Len(productos[r]) = Cardinality(Supervivientes(rawData[r]))
      /\ \A i \in Supervivientes(rawData[r]) :
           C4_Fechas(productos[r][Puesto(rawData[r], i)],
                     Texto(rawData[r].values[i], 2))

\* an upper-case match inside a longer text, after a row without a match
C4_Witness ==
  \E r \in Reqs :
    /\ Procesado(r)
    /\ rawData[r] = Values(<<Header, FilaGadget, FilaEspacios>>)
    /\ productos[r][1].fechaInicio = <<>>
    /\ productos[r][2].fechaInicio = Fecha1
    /\ productos[r][2].fechaFin = Fecha2
    /\ productos[r][2].vigenciaCompleta = VigUpper

\* C5: generateProductId returns only lower-case letters, digits and
\* hyphens, and at most 50 characters.  (That it returns the same string for
\* the same name is what being an operator of the name alone means.)
C5_IdSeguro ==
  llamada.fn = "generateProductId" =>
    /\ Len(retorno.id) <= 50
    /\ \A k \in 1..Len(retorno.id) :
         retorno.id[k] \in
           {"a", "b", "c", "d", "e", "f", "g", "h", "i", "j", "k", "l", "m",
            "n", "o", "p", "q", "r", "s", "t", "u", "v", "w", "x", "y", "z",
            "0", "1", "2", "3", "4", "5", "6", "7", "8", "9", "-"}

\* a name of more than 50 characters with characters to remove is cut
C5_Witness ==
  /\ llamada.fn = "generateProductId"
  /\ llamada.nombre = Largo \o Pina
  /\ Len(retorno.id) = 50

\* the reasons C6 expects, in order
C6_Razones(p) ==
  (IF Len(p.nombre) = 0 THEN <<"Nombre requerido">> ELSE <<>>)
    \o (IF Len(p.imagen) = 0 THEN <<"Imagen requerida">> ELSE <<>>)
    \o (IF Len(p.compraMinima) = 0
          THEN <<"Compra mínima requerida">> ELSE <<>>)

\* C6: validateProducto checks nombre, imagen and compraMinima one by one
\* without short-circuit: errors holds one fixed reason per empty field, in
\* that order, and isValid holds exactly when errors is empty, that is when
\* the three fields are non-empty.
C6_Validacion ==
  llamada.fn = "validateProducto" =>
    /\ retorno.errors = C6_Razones(llamada.producto)
    /\ retorno.isValid <=> (retorno.errors = <<>>)
    /\ retorno.isValid <=>
         /\ llamada.producto.nombre # <<>>
         /\ llamada.producto.imagen # <<>>
         /\ llamada.producto.compraMinima # <<>>

\* the three fields are empty and the three reasons are reported
C6_Witness ==
  /\ llamada.fn = "validateProducto"
  /\ llamada.producto.nombre = <<>>
  /\ llamada.producto.imagen = <<>>
  /\ llamada.producto.compraMinima = <<>>
  /\ Len(retorno.errors) = 3
  /\ ~retorno.isValid

\* the number of positions of ps that satisfy P
Cuenta(ps, P(_)) == Cardinality({k \in 1..Len(ps) : P(ps[k])})

\* C7: the statistics of GET /api/stats: totalProductos is the number of
\* normalized products, productosActivos equals it, conImagen + sinImagen
\* equals it with every product in exactly one of the two, and conVigencia
\* is the number of products whose vigenciaCompleta is non-empty.
C7_Estadisticas ==
  \A r \in Reqs :
    (pc[r] = "done" /\ kind[r] = "stats" /\ ~failed[r]) =>
      /\ Len(res[r]) = 1
      /\ res[r][1].status = 200
      /\ res[r][1].body.stats.totalProductos
           = Cardinality(Supervivientes(rawData[r]))
      /\ res[r][1].body.stats.totalProductos = Len(productos[r])
      /\ res[r][1].body.stats.productosActivos
           = res[r][1].body.stats.totalProductos
      /\ res[r][1].body.stats.categorias.conImagen
           = Cuenta(productos[r], LAMBDA p : Len(p.imagen) > 0)
      /\ res[r][1].body.stats.categorias.sinImagen
           = Cuenta(productos[r], LAMBDA p : Len(p.imagen) = 0)
      /\ res[r][1].body.stats.categorias.conImagen
           + res[r][1].body.stats.categorias.sinImagen
           = res[r][1].body.stats.totalProductos
      /\ res[r][1].body.stats.categorias.conVigencia
           = Cuenta(productos[r], LAMBDA p : Len(p.vigenciaCompleta) > 0)

\* two products: one without image, one with a validity text without dates
C7_Witness ==
  \E r \in Reqs :
    /\ pc[r] = "done" /\ kind[r] = "stats" /\ ~failed[r]
    /\ rawData[r] = Values(<<Header, FilaGadget, FilaSinVigencia>>)
    /\ res[r][1].body.stats.totalProductos = 2
    /\ res[r][1].body.stats.categorias.conImagen = 1
    /\ res[r][1].body.stats.categorias.sinImagen = 1
    /\ res[r][1].body.stats.categorias.conVigencia = 1

\* the positions of the products of r that have the requested id
Aciertos(r) == {k \in 1..Len(productos[r]) : productos[r][k].id = reqId[r]}

\* C8: GET /api/productos/:id answers in exactly one of three ways: 200 with
\* the first product in table order that has the id, when the fetch succeeds
\* and there is one; 404 when the fetch succeeds and there is none (also for
\* an absent or header-only table); 500 only when the fetch fails.
C8_Busqueda ==
  \A r \in Reqs :
    (pc[r] = "done" /\ kind[r] = "lookup") =>
      /\ Len(res[r]) = 1
      /\ res[r][1].status \in {200, 404, 500}
      /\ res[r][1].status = 500 <=> failed[r]
      /\ res[r][1].status = 404 <=> (~failed[r] /\ Aciertos(r) = {})
      /\ res[r][1].status = 200 <=> (~failed[r] /\ Aciertos(r) # {})
      /\ res[r][1].status = 200 =>
           /\ res[r][1].body.success
           /\ \E k \in Aciertos(r) :
                /\ \A j \in Aciertos(r) : k <= j
                /\ res[r][1].body.producto = productos[r][k]
      /\ res[r][1].status = 404 =>
           res[r][1].body = [success |-> FALSE,
                             error |-> "Producto no encontrado"]
      /\ res[r][1].status = 500 =>
           res[r][1].body = [success |-> FALSE,
                             error |-> "Error interno del servidor"]
      /\ ~failed[r] =>
           Len(productos[r]) = Cardinality(Supervivientes(rawData[r]))

\* two products have the requested id and the first one is returned
C8_Witness ==
  \E r \in Reqs :
    /\ pc[r] = "done" /\ kind[r] = "lookup" /\ ~failed[r]
    /\ rawData[r] = Values(<<Header, FilaMinus, FilaWidget>>)
    /\ Aciertos(r) = {1, 2}
    /\ res[r][1].status = 200
    /\ res[r][1].body.producto.nombre = WidgetMinus

\* a product whose three required fields are non-empty
Completo(p) ==
  Len(p.nombre) > 0 /\ Len(p.imagen) > 0 /\ Len(p.compraMinima) > 0

\* C9: validation does not filter the listing.  For a present table the
\* list handler returns every normalized product, valid or not, in table
\* order, total is their number, and productosValidos + productosInvalidos
\* equals total, each product counted in one of the two.
C9_ListadoCompleto ==
  \A r \in Reqs :
    (pc[r] = "done" /\ kind[r] = "list" /\ ~failed[r] /\ rawData[r].defined)
      =>
      /\ Len(res[r]) = 1
      /\ res[r][1].status = 200
      /\ res[r][1].body.productos = productos[r]
      /\ Len(res[r][1].body.productos)
           = Cardinality(Supervivientes(rawData[r]))
      /\ \A i \in Supervivientes(rawData[r]) :
           EsRecorte(res[r][1].body.productos[Puesto(rawData[r], i)].nombre,
                     rawData[r].values[i][1])
      /\ res[r][1].body.total = Len(res[r][1].body.productos)
      /\ res[r][1].body.metadata.productosValidos
           = Cuenta(productos[r], Completo)
      /\ res[r][1].body.metadata.productosInvalidos
           = Cuenta(productos[r], LAMBDA p : ~Completo(p))
      /\ res[r][1].body.metadata.productosValidos
           + res[r][1].body.metadata.productosInvalidos
           = res[r][1].body.total

\* an invalid product is listed before a valid one
C9_Witness ==
  \E r \in Reqs :
    /\ pc[r] = "done" /\ kind[r] = "list" /\ ~failed[r]
    /\ rawData[r] = Values(<<Header, FilaGadget, FilaWidget>>)
    /\ res[r][1].body.total = 2
    /\ res[r][1].body.productos[1].nombre = GadgetB
    /\ res[r][1].body.metadata.productosValidos = 1
    /\ res[r][1].body.metadata.productosInvalidos = 1

\* the responses a request of kind k for id sends when it runs alone, its
\* fetch having failed (fallo) or returned raw, with clock reading ahora
Solo(k, id, fallo, raw, ahora) ==
  IF fallo THEN <<[status |-> 500, body |-> Error500(k)]>>
  ELSE IF k = "list"
    THEN IF raw.defined
           THEN <<[status |-> 200,
                   body |-> ListaBody(procesarProductos(raw, ahora), ahora)]>>
           ELSE <<[status |-> 404, body |-> SinDatos]>>
  ELSE IF k = "lookup"
    THEN IF find(procesarProductos(raw, ahora), id).found
           THEN <<[status |-> 200,
                   body |-> [success |-> TRUE,
                             producto |->
                               find(procesarProductos(raw, ahora), id)
                                 .producto]]>>
           ELSE <<[status |-> 404, body |-> NoEncontrado]>>
  ELSE <<[status |-> 200,
          body |-> StatsBody(procesarProductos(raw, ahora), ahora)]>>

\* everything the model holds of request r
DeLaPeticion(r) ==
  <<pc[r], kind[r], reqId[r], failed[r], rawData[r], productos[r], res[r]>>

\* C10: under any interleaving of list, lookup and stats requests, a request
\* that has answered has sent exactly one response, the one it sends when it
\* runs alone on the outcome of its own fetch (and its id and clock reading);
\* a request that has not answered has sent none; a step belongs to one
\* request and changes nothing of another, and nothing of a request that has
\* answered changes afterwards.
C10_Aislamiento ==
  [][/\ \A r \in Reqs :
          IF pc'[r] = "done"
            THEN \E ahora \in Relojes :
                   res'[r] = Solo(kind'[r], reqId'[r], failed'[r],
                                  rawData'[r], ahora)
            ELSE res'[r] = <<>>
     /\ \E r \in Reqs :
          \A q \in Reqs \ {r} : DeLaPeticion(q)' = DeLaPeticion(q)
     /\ \A r \in Reqs :
          pc[r] = "done" => DeLaPeticion(r)' = DeLaPeticion(r)]_vars

\* two requests fetched different tables and both have answered
C10_Witness ==
  \E r, q \in Reqs :
    /\ pc[r] = "done" /\ kind[r] = "stats" /\ ~failed[r]
    /\ pc[q] = "done" /\ kind[q] = "list" /\ ~failed[q]
    /\ rawData[r].defined
    /\ rawData[q].defined
    /\ rawData[r] # rawData[q]
    /\ Len(productos[r]) # Len(productos[q])

====
